---------------------------- MODULE Spec2Model ----------------------------
(***************************************************************************)
(* Model of the IMDb ETL pipeline (src/app/etl.py) and of the part of its  *)
(* control surface that creates run records (src/app/routers/etl.py).      *)
(*                                                                         *)
(* Fault model: the network probe and download, opening and reading a      *)
(* source file, and every commit of a load or of the aggregation may       *)
(* raise.  The single insert of log_etl_run is taken to succeed.           *)
(***************************************************************************)
EXTENDS Integers, Sequences, FiniteSets, TLC

(***************************************************************************)
(* Bounds of the model.                                                    *)
(***************************************************************************)
\* Records per committed batch; the code uses 100 (etl.py:117), scaled down.
batch_size == 2
\* Longest generated source file of the single-load specification, in data lines.
MaxLines == 3
\* Pipeline executions (command line or background) in one behaviour.
MaxRuns == 2
\* Start requests to the control surface in one behaviour.
MaxStarts == 2
\* The clock runs from 0 to MaxClock.
MaxClock == 1
\* Failures of the environment in one behaviour.
MaxFaults == 1
\* Cancel requests accepted.
MaxCancels == 1
\* Background tasks begun in one behaviour.
MaxTasks == 1
\* Largest max_retries _init_database_connection is called with; the code's
\* default is 30 (etl.py:39).
MaxRetries == 4
\* Largest offset of a request to GET /actors.
MaxOffset == 4
\* Requests to POST /etl/refresh-view whose recompute ran in one behaviour.
MaxViewRequests == 1

(***************************************************************************)
(* Optional values: None is the empty sequence, a present value v is <<v>>.*)
(***************************************************************************)
None == <<>>
Some(v) == <<v>>

\* The null sentinel of the source files: backslash, N.
NullSentinel == "\\N"

(***************************************************************************)
(* Text conversions, given on the field texts that occur in the model.     *)
(***************************************************************************)
\* str.isdigit() and int(): the texts made of decimal digits only.
DigitTexts == {"1", "2", "3", "10", "90", "120", "500", "1000", "3000",
               "1970", "1999", "2001"}

isdigit(s) == s \in DigitTexts

int(s) ==
  CASE s = "1" -> 1 [] s = "2" -> 2 [] s = "3" -> 3 [] s = "10" -> 10
    [] s = "90" -> 90 [] s = "120" -> 120 [] s = "500" -> 500
    [] s = "1000" -> 1000 [] s = "3000" -> 3000 [] s = "1970" -> 1970
    [] s = "1999" -> 1999 [] s = "2001" -> 2001

\* float(): the texts float() accepts; the value is kept in tenths.
FloatTexts == {"8.0", "9.0", "7.5", "500", "10"}

float(s) ==
  CASE s = "8.0" -> 80 [] s = "9.0" -> 90 [] s = "7.5" -> 75
    [] s = "500" -> 5000 [] s = "10" -> 100

\* Mutant of lower: the text is left in its case.
lower_same(s) == s

\* str.lower() on the profession texts of the model.
lower(s) ==
  CASE s = "Actress" -> "actress"
    [] s = "ACTOR,writer" -> "actor,writer"
    [] OTHER -> s

\* 'actor' in s or 'actress' in s, for lower-cased profession texts.
ContainsActor(s) == s \in {"actor", "actress", "actor,producer", "actor,writer"}


(***************************************************************************)
(* The four datasets, in the order of file_processors.                     *)
(***************************************************************************)
file_processors == <<"name_basics", "title_basics", "title_ratings", "title_principals">>

FileKeys == {file_processors[i] : i \in 1..Len(file_processors)}

(***************************************************************************)
(* Source lines.  A line is the sequence of its tab-separated texts; the   *)
(* first line of a file is its header.                                     *)
(***************************************************************************)
Header == <<"header">>

PeopleLines ==
  << <<"nm1", "Ann", "1970", "\\N", "actor,producer", "tt1,tt2">>,
     <<"nm2", "Bob">>,
     <<"nm3", "Cy", "\\N", "\\N", "director", "\\N">>,
     <<"nm4", "Dee", "19xx", "2001", "Actress", "\\N">>,
     <<"nm5", "Eli", "\\N", "\\N", "ACTOR,writer", "tt2">> >>

TitlesLines ==
  << <<"tt1", "movie", "One", "One", "0", "1999", "\\N", "120", "Drama">>,
     <<"tt3", "short">>,
     <<"tt2", "movie", "Two", "Two", "\\N", "2001", "\\N", "\\N", "\\N">>,
     <<"tt4", "movie", "Four", "Four", "1", "19xx", "\\N", "90", "", "">> >>

RatingsLines ==
  << <<"tt1", "8.0", "1000">>,
     <<"tt2", "\\N", "500">>,
     <<"tt4", "abc", "10">>,
     <<"tt2", "9.0", "3000">>,
     <<"tt4", "7.5", "x">> >>

PrincipalsLines ==
  << <<"tt1", "1", "nm1", "actor", "\\N", "X">>,
     <<"tt1", "2", "nm9", "director", "\\N", "\\N">>,
     <<"tt2", "\\N", "nm1", "actor", "\\N", "\\N">>,
     <<"tt2", "3", "nm4", "actress", "\\N", "\\N">> >>

LinesOf(key) ==
  CASE key = "name_basics" -> PeopleLines
    [] key = "title_basics" -> TitlesLines
    [] key = "title_ratings" -> RatingsLines
    [] key = "title_principals" -> PrincipalsLines

\* The file the remote side serves for a dataset in the pipeline specification.
RemoteFile(key) == <<Header>> \o LinesOf(key)

(***************************************************************************)
(* line.strip().split('\t'): tabs are white space, so strip() removes the  *)
(* empty texts at both ends of the line before it is split.                *)
(***************************************************************************)
RECURSIVE rstrip(_)
rstrip(line) ==
  IF Len(line) > 1 /\ line[Len(line)] = ""
    THEN rstrip(SubSeq(line, 1, Len(line) - 1))
    ELSE line

RECURSIVE lstrip(_)
lstrip(line) ==
  IF Len(line) > 1 /\ line[1] = "" THEN lstrip(Tail(line)) ELSE line

strip_split(line) == lstrip(rstrip(line))

\* What one pass of the line loop's try block yields before the batch check.
Skip == [kind |-> "skip"]
Raise == [kind |-> "error"]
Drop == [kind |-> "drop"]
Emit(r) == [kind |-> "record", rec |-> r]

OptText(f) == IF f # NullSentinel THEN Some(f) ELSE None
OptInt(f) == IF f # NullSentinel /\ isdigit(f) THEN Some(int(f)) ELSE None

(***************************************************************************)
(* The try block of each loader up to the batch check (Python indexes the  *)
(* fields from 0, the model from 1).                                       *)
(***************************************************************************)
\* len(fields) < n: continue
MinColumns(key) ==
  CASE key = "name_basics" -> 6
    [] key = "title_basics" -> 9
    [] key = "title_ratings" -> 3
    [] key = "title_principals" -> 6

parse_people(line) ==
  LET fields == strip_split(line) IN
  IF Len(fields) < MinColumns("name_basics") THEN Skip
  ELSE LET primary_profession ==
             IF fields[5] # NullSentinel THEN fields[5] ELSE "" IN
       IF ~ContainsActor(lower(primary_profession)) THEN Skip
       ELSE Emit([nconst |-> fields[1],
                  primary_name |-> OptText(fields[2]),
                  birth_year |-> OptInt(fields[3]),
                  death_year |-> OptInt(fields[4]),
                  primary_profession |->
                    IF primary_profession # "" THEN Some(primary_profession) ELSE None,
                  known_for_titles |-> OptText(fields[6])])

parse_titles(line) ==
  LET fields == strip_split(line) IN
  IF Len(fields) < MinColumns("title_basics") THEN Skip
  ELSE Emit([tconst |-> fields[1],
             title_type |-> OptText(fields[2]),
             primary_title |-> OptText(fields[3]),
             original_title |-> OptText(fields[4]),
             is_adult |-> (fields[5] = "1"),
             start_year |-> OptInt(fields[6]),
             end_year |-> OptInt(fields[7]),
             runtime_minutes |-> OptInt(fields[8]),
             genres |-> OptText(fields[9])])

parse_ratings(line) ==
  LET fields == strip_split(line) IN
  IF Len(fields) < MinColumns("title_ratings") THEN Skip
  ELSE IF fields[2] # NullSentinel /\ fields[2] \notin FloatTexts THEN Raise
  ELSE LET average_rating ==
             IF fields[2] # NullSentinel THEN Some(float(fields[2])) ELSE None
           num_votes == OptInt(fields[3]) IN
       IF average_rating # None /\ num_votes # None
         THEN Emit([tconst |-> fields[1],
                    average_rating |-> average_rating[1],
                    num_votes |-> num_votes[1]])
         ELSE Drop

parse_principals(line) ==
  LET fields == strip_split(line) IN
  IF Len(fields) < MinColumns("title_principals") THEN Skip
  ELSE LET category == IF fields[4] # NullSentinel THEN fields[4] ELSE "" IN
       IF category \notin {"actor", "actress"} THEN Skip
       ELSE Emit([tconst |-> fields[1],
                  ordering |->
                    IF fields[2] # NullSentinel /\ isdigit(fields[2])
                      THEN int(fields[2]) ELSE 1,
                  nconst |-> fields[3],
                  category |-> category,
                  job |-> OptText(fields[5]),
                  characters |-> OptText(fields[6])])

parse_line(key, line) ==
  CASE key = "name_basics" -> parse_people(line)
    [] key = "title_basics" -> parse_titles(line)
    [] key = "title_ratings" -> parse_ratings(line)
    [] key = "title_principals" -> parse_principals(line)

(***************************************************************************)
(* The tables.  A table is the sequence of its rows in insertion order.    *)
(* A commit is refused by the storage when the rows break a constraint of  *)
(* the table: its primary key, or a NOT NULL column.                       *)
(***************************************************************************)
PrimaryKey(key, row) ==
  CASE key = "name_basics" -> row.nconst
    [] key = "title_basics" -> row.tconst
    [] key = "title_ratings" -> row.tconst
    [] key = "title_principals" -> row.id

NotNullOK(key, row) ==
  CASE key = "name_basics" -> row.primary_name # None
    [] key = "title_basics" -> row.primary_title # None
    [] OTHER -> TRUE

ConstraintsOK(key, rows) ==
  /\ \A i \in 1..Len(rows) : NotNullOK(key, rows[i])
  /\ \A i, j \in 1..Len(rows) :
       i # j => PrimaryKey(key, rows[i]) # PrimaryKey(key, rows[j])

\* The rows a batch becomes when inserted: principals get their surrogate id
\* from the table's sequence, which a DELETE does not reset.
RowsOf(key, batch, seq) ==
  IF key = "title_principals"
    THEN [i \in 1..Len(batch) |->
            [id |-> seq + i, tconst |-> batch[i].tconst,
             ordering |-> batch[i].ordering, nconst |-> batch[i].nconst,
             category |-> batch[i].category, job |-> batch[i].job,
             characters |-> batch[i].characters]]
    ELSE batch

\* A row without its surrogate id: the record the loader built.
RecordOf(key, row) ==
  IF key = "title_principals"
    THEN [tconst |-> row.tconst, ordering |-> row.ordering, nconst |-> row.nconst,
          category |-> row.category, job |-> row.job, characters |-> row.characters]
    ELSE row

(***************************************************************************)
(* State.                                                                  *)
(***************************************************************************)
VARIABLES
  local_file,        \* data_dir: per dataset None, or Some(the lines of the local file)
  table,             \* people, titles, ratings, principals: per dataset its rows
  principal_seq,     \* last value of the id sequence of principals
  actor_ratings,     \* the rows of actor_ratings (without their surrogate id)
  etl_runs,          \* the rows of etl_runs; a row's id is its position
  now,               \* the clock read by datetime.now()
  pc,                \* position of the pipeline process
  frame,             \* the function that called the loader in progress
  caller,            \* who called run_full_pipeline: "main" or "background"
  started_at,        \* run_full_pipeline: started_at
  total_records,     \* run_full_pipeline: total_records
  file_idx,          \* run_full_pipeline: position in file_processors
  file_key,          \* the dataset being fetched or loaded
  cursor,            \* loader: index of the next line of the open file
  batch,             \* loader: batch
  records_processed, \* loader: records_processed
  error,             \* the message of the exception in flight, or None
  result,            \* what run_full_pipeline returned, or None
  exit_code,         \* exit status of the command line, or None
  tasks,             \* background tasks added and not yet started
  task_run_id,       \* history: the run id start_etl returned for the running task
  runs_begun,        \* history: pipeline executions begun
  starts,            \* history: start requests made
  last_response,     \* history: status code of the last start request
  loaded,            \* history: datasets whose load returned in this execution
  fetched,           \* history: datasets download_file was called for in this execution
  refreshed,         \* history: "no", or how this execution's refresh ended
  committed,         \* history: records committed by this execution's loads
  commit_failed,     \* history: a commit of the load in progress has failed
  lines_read,        \* history: lines the load in progress has taken from the file
  last_fetch,        \* history: what the last download_file did
  finish_writes,     \* history: statuses this execution wrote with log_etl_run
  table_before,      \* history: the destination table when the load was entered
  faults,            \* failures of the environment so far
  first_load,        \* history: what the first of two successive loads returned and left
  first_refresh,     \* history: the rows the first of two successive refreshes left
  ratings_before,    \* history: actor_ratings when this execution was entered
  cancelled,         \* history: ids of the runs a cancel request was accepted for
  forced,            \* history: a start request has used force
  conn,              \* _init_database_connection: its locals, self.Session, its history
  query,             \* GET /actors: the last request and its response
  view_reads         \* history: what each POST /etl/refresh-view found when it read

vars == <<local_file, table, principal_seq, actor_ratings, etl_runs, now, pc, frame,
          caller, started_at, total_records, file_idx, file_key, cursor, batch,
          records_processed, error, result, exit_code, tasks, task_run_id,
          runs_begun, starts, last_response, loaded, fetched, refreshed, committed,
          commit_failed, lines_read, last_fetch, finish_writes, table_before,
          faults, first_load, first_refresh, ratings_before, cancelled, forced, conn, query,
          view_reads>>

dbVars == <<table, principal_seq, actor_ratings, etl_runs>>
loaderVars == <<cursor, batch, records_processed, commit_failed, lines_read, table_before>>
pipelineVars == <<caller, started_at, total_records, file_idx, result, exit_code,
                  loaded, fetched, refreshed, finish_writes>>
apiVars == <<tasks, task_run_id, starts, last_response>>
\* What only the environment's failures and the load harness change.
histVars == <<first_refresh, ratings_before, cancelled, forced, conn, query,
          view_reads>>
restVars == <<faults, first_load, histVars>>

\* self.Session once IMDbETL() has been constructed: __init__ returned, so
\* _init_database_connection returned from an attempt that succeeded.
Connected ==
  [max_retries |-> 1, retry_interval |-> 2, attempt |-> 0, outcomes |-> <<"ok">>,
   slept |-> 0, Session |-> TRUE, verified |-> TRUE, pc |-> "returned"]

\* No request to GET /actors has been made.
NoQuery == [handler |-> "none"]

\* os.path.getsize: the size of a file, counted in texts.
RECURSIVE FileSize(_)
FileSize(file) ==
  IF file = <<>> THEN 0 ELSE Len(Head(file)) + 1 + FileSize(Tail(file))

(***************************************************************************)
(* The aggregation query of refresh_materialized_view.                     *)
(***************************************************************************)
\* The rows of FROM people p JOIN principals pr JOIN titles t JOIN ratings r
\* WHERE pr.category IN ('actor', 'actress'), as index tuples.
JoinRows(people, principals, titles, ratings) ==
  {j \in (1..Len(people)) \X (1..Len(principals)) \X (1..Len(titles)) \X (1..Len(ratings)) :
     /\ people[j[1]].nconst = principals[j[2]].nconst
     /\ principals[j[2]].tconst = titles[j[3]].tconst
     /\ titles[j[3]].tconst = ratings[j[4]].tconst
     /\ principals[j[2]].category \in {"actor", "actress"}}

RECURSIVE SumRating(_, _)
SumRating(rows, ratings) ==
  IF rows = {} THEN 0
  ELSE LET j == CHOOSE x \in rows : TRUE IN
       ratings[j[4]].average_rating + SumRating(rows \ {j}, ratings)

RECURSIVE SumRuntime(_, _)
SumRuntime(rows, titles) ==
  IF rows = {} THEN 0
  ELSE LET j == CHOOSE x \in rows : TRUE
           rt == titles[j[3]].runtime_minutes IN
       (IF rt = None THEN 0 ELSE rt[1]) + SumRuntime(rows \ {j}, titles)

\* ROUND(AVG(average_rating)::numeric, 2): ratings are in tenths, the score in
\* hundredths, halves rounded away from zero.
RoundedAvg(sum, n) == (20 * sum + n) \div (2 * n)

AggregateRows(people, principals, titles, ratings) ==
  LET J == JoinRows(people, principals, titles, ratings)
      GroupKey(j) == <<people[j[1]].primary_name, principals[j[2]].category>>
      keys == {GroupKey(j) : j \in J}
      Group(k) == {j \in J : GroupKey(j) = k} IN
  {[primary_name |-> k[1][1],
    profession |-> k[2],
    score |-> RoundedAvg(SumRating(Group(k), ratings), Cardinality(Group(k))),
    number_of_titles |-> Cardinality({principals[j[2]].tconst : j \in Group(k)}),
    total_runtime_minutes |-> SumRuntime(Group(k), titles)] : k \in keys}

(***************************************************************************)
(* Failures of the environment (network, file system, storage).  A         *)
(* behaviour holds at most MaxFaults of them.                              *)
(***************************************************************************)
Fault ==
  /\ faults < MaxFaults
  /\ faults' = faults + 1

NoFault == faults' = faults

\* The exception leaves the function in progress: its message is kept.
RaiseError(msg) ==
  /\ pc' = "raised"
  /\ error' = Some(msg)

(***************************************************************************)
(* download_file.                                                          *)
(***************************************************************************)
\* os.path.exists(local_path) with the whole of the remote file in it.
HasCopy(key) == local_file[key] = Some(RemoteFile(key))

\* What download_file does once the HEAD request has failed.
ProbeFailed(key) ==
  /\ RaiseError("HeadError")
  /\ last_fetch' = [key |-> key, probe |-> "error", get |-> "none",
                    had |-> HasCopy(key), length |-> FALSE]
  /\ UNCHANGED local_file

\* A stream that breaks leaves the chunks written so far: nothing, or all
\* but the end of the file.
BrokenCopies(file) == {<<>>, SubSeq(file, 1, Len(file) - 1)}

\* The streamed GET of download_file and what follows it.
Download(key, has_length) ==
  \/ /\ NoFault
     /\ local_file' = [local_file EXCEPT ![key] = Some(RemoteFile(key))]
     /\ last_fetch' = [key |-> key, probe |-> "ok", get |-> "ok",
                       had |-> HasCopy(key), length |-> has_length]
     /\ pc' = "process_delete"
     /\ UNCHANGED error
  \/ /\ Fault
     /\ RaiseError("GetError")
     /\ last_fetch' = [key |-> key, probe |-> "ok", get |-> "error",
                       had |-> HasCopy(key), length |-> has_length]
     /\ \/ UNCHANGED local_file
        \/ \E part \in BrokenCopies(RemoteFile(key)) :
             local_file' = [local_file EXCEPT ![key] = Some(part)]

\* Mutant of NeedsDownload: the local file is never taken as current.
NeedsDownload_always(local, remote_size) == TRUE

\* os.path.exists(local_path) and local_size == remote_size: return local_path
NeedsDownload(local, remote_size) ==
  local = None \/ FileSize(local[1]) # remote_size

download_file ==
  /\ pc = "download"
  /\ fetched' = Append(fetched, file_key)
  /\ \/ /\ Fault
        /\ ProbeFailed(file_key)
     \/ \E has_length \in BOOLEAN :
          LET remote_size ==
                IF has_length THEN FileSize(RemoteFile(file_key)) ELSE 0 IN
          IF ~NeedsDownload(local_file[file_key], remote_size)
            THEN /\ pc' = "process_delete"
                 /\ last_fetch' = [key |-> file_key, probe |-> "ok", get |-> "none",
                                   had |-> HasCopy(file_key), length |-> has_length]
                 /\ NoFault
                 /\ UNCHANGED <<local_file, error>>
            ELSE Download(file_key, has_length)
  /\ UNCHANGED <<dbVars, now, frame, caller, started_at, total_records, file_idx,
                 result, exit_code, loaded, refreshed, finish_writes, file_key,
                 apiVars, runs_begun, committed, first_load, histVars, loaderVars>>

(***************************************************************************)
(* process_people, process_titles, process_ratings, process_principals:    *)
(* the four loaders share their control flow and differ in the table and   *)
(* in the parse of a line.                                                 *)
(***************************************************************************)
LoadFrame == <<local_file, actor_ratings, etl_runs, now, frame, pipelineVars,
               file_key, apiVars, runs_begun, last_fetch, first_load, histVars>>

\* Mutant of Cleared: the old rows survive the delete.
Cleared_keep(key) == table

\* session.query(X).delete(): the tables without the rows of one of them.
Cleared(key) == [table EXCEPT ![key] = <<>>]

\* Entry of the loader: records_processed = 0, batch = [], then
\* session.query(X).delete(); session.commit()
process_delete ==
  /\ pc = "process_delete"
  /\ records_processed' = 0
  /\ batch' = <<>>
  /\ cursor' = 1
  /\ commit_failed' = FALSE
  /\ lines_read' = 0
  /\ table_before' = table[file_key]
  /\ \/ /\ NoFault
        /\ table' = Cleared(file_key)
        /\ pc' = "process_open"
        /\ UNCHANGED error
     \/ /\ Fault
        /\ RaiseError("DeleteError")
        /\ UNCHANGED table
  /\ UNCHANGED <<LoadFrame, principal_seq, committed>>

\* gzip.open(file_path) and the readline() that skips the header
process_open ==
  /\ pc = "process_open"
  /\ \/ /\ local_file[file_key] # None
        /\ NoFault
        /\ pc' = "process_line"
        /\ cursor' = IF Len(local_file[file_key][1]) >= 1 THEN 2 ELSE 1
        /\ lines_read' = IF Len(local_file[file_key][1]) >= 1 THEN 1 ELSE 0
        /\ UNCHANGED error
     \/ /\ IF local_file[file_key] = None THEN NoFault ELSE Fault
        /\ RaiseError("OpenError")
        /\ UNCHANGED <<cursor, lines_read>>
  /\ UNCHANGED <<LoadFrame, dbVars, batch, records_processed, commit_failed,
                 table_before, committed>>

\* session.add_all(batch); session.commit(): the storage refuses rows that
\* break a constraint, and any commit may fail for the storage's own reasons.
CanCommit(key, rows) == ConstraintsOK(key, table[key] \o rows)

CommitBatch(key, b) ==
  LET rows == RowsOf(key, b, principal_seq) IN
  /\ CanCommit(key, rows)
  /\ NoFault
  /\ table' = [table EXCEPT ![key] = table[key] \o rows]
  /\ principal_seq' = IF key = "title_principals"
                        THEN principal_seq + Len(b) ELSE principal_seq
  /\ records_processed' = records_processed + Len(b)
  /\ committed' = committed + Len(b)

\* The commit raises: nothing of the batch is stored.
CommitRaises(key, b) ==
  /\ IF CanCommit(key, RowsOf(key, b, principal_seq)) THEN Fault ELSE NoFault
  /\ commit_failed' = TRUE
  /\ UNCHANGED <<table, principal_seq, records_processed, committed>>

\* Mutant of LoopBody: an exception raised while a line is parsed leaves the loop.
LoopBody_abort(key, line) ==
  LET r == parse_line(key, line)
      b == IF r.kind = "record" THEN Append(batch, r.rec) ELSE batch IN
  IF r.kind = "error"
    THEN /\ RaiseError("ValueError")
         /\ NoFault
         /\ UNCHANGED <<table, principal_seq, records_processed, committed,
                        commit_failed, batch>>
    ELSE /\ UNCHANGED <<pc, error>>
         /\ IF r.kind \in {"record", "drop"} /\ Len(b) >= batch_size
              THEN \/ /\ CommitBatch(key, b)
                      /\ batch' = <<>>
                      /\ UNCHANGED commit_failed
                   \/ /\ CommitRaises(key, b)
                      /\ batch' = b
              ELSE /\ batch' = b
                   /\ NoFault
                   /\ UNCHANGED <<table, principal_seq, records_processed, committed,
                                  commit_failed>>

\* One pass of the line loop on a line that was read.  An exception raised
\* inside the try block, the commit's included, is logged and the loop goes on.
LoopBody(key, line) ==
  LET r == parse_line(key, line)
      b == IF r.kind = "record" THEN Append(batch, r.rec) ELSE batch IN
  /\ UNCHANGED <<pc, error>>
  /\ IF r.kind \in {"record", "drop"} /\ Len(b) >= batch_size
       THEN \/ /\ CommitBatch(key, b)
               /\ batch' = <<>>
               /\ UNCHANGED commit_failed
            \/ /\ CommitRaises(key, b)
               /\ batch' = b
       ELSE /\ batch' = b
            /\ NoFault
            /\ UNCHANGED <<table, principal_seq, records_processed, committed,
                           commit_failed>>

process_line ==
  /\ pc = "process_line"
  /\ cursor <= Len(local_file[file_key][1])
  /\ \/ /\ LoopBody(file_key, local_file[file_key][1][cursor])
        /\ cursor' = cursor + 1
        /\ lines_read' = lines_read + 1
     \/ /\ Fault
        /\ RaiseError("ReadError")
        /\ UNCHANGED <<table, principal_seq, cursor, batch, records_processed,
                       commit_failed, lines_read, committed>>
  /\ UNCHANGED <<LoadFrame, table_before>>

\* The end of the file: the remaining batch is committed outside the try
\* block, without being cleared, and the loader returns records_processed.
process_final ==
  /\ pc = "process_line"
  /\ cursor > Len(local_file[file_key][1])
  /\ IF batch # <<>>
       THEN \/ /\ CommitBatch(file_key, batch)
               /\ pc' = "load_returned"
               /\ UNCHANGED <<batch, error, commit_failed>>
            \/ /\ CommitRaises(file_key, batch)
               /\ RaiseError("CommitError")
               /\ UNCHANGED batch
       ELSE /\ pc' = "load_returned"
            /\ NoFault
            /\ UNCHANGED <<table, principal_seq, batch, records_processed, committed,
                           error, commit_failed>>
  /\ UNCHANGED <<LoadFrame, cursor, lines_read, table_before>>

(***************************************************************************)
(* refresh_materialized_view: DELETE and commit, then INSERT ... SELECT    *)
(* and commit.                                                             *)
(***************************************************************************)
\* Mutant of Replaced: the rows of before survive the refresh.
Replaced_kept(old, new) == old \cup new

\* DELETE FROM actor_ratings, then the INSERT of the computed rows.
Replaced(old, new) == new

\* Mutant of Deleted: a failed insert brings back the rows of before.
Deleted_restored(rows) == rows

\* DELETE FROM actor_ratings and its commit, when the INSERT that follows
\* fails: the delete stays.
Deleted(rows) == {}

refresh_materialized_view ==
  /\ pc = "refresh"
  /\ \/ /\ NoFault
        /\ actor_ratings' = Replaced(actor_ratings,
                                     AggregateRows(table["name_basics"],
                                                   table["title_principals"],
                                                   table["title_basics"],
                                                   table["title_ratings"]))
        /\ pc' = "refresh_returned"
        /\ refreshed' = "done"
        /\ UNCHANGED error
     \/ /\ Fault
        /\ RaiseError("RefreshDeleteError")
        /\ refreshed' = "failed"
        /\ UNCHANGED actor_ratings
     \/ /\ Fault
        /\ actor_ratings' = Deleted(actor_ratings)
        /\ RaiseError("RefreshInsertError")
        /\ refreshed' = "failed"
  /\ UNCHANGED <<local_file, table, principal_seq, etl_runs, now, frame, caller,
                 started_at, total_records, file_idx, result, exit_code, loaded,
                 fetched, finish_writes, file_key, loaderVars, apiVars, runs_begun,
                 committed, last_fetch, first_load, histVars>>

\* Mutant of session_add: the new row takes the place of the rows of before.
session_add_replace(rows, row) == <<row>>

\* session.add(etl_run); session.commit(): the row joins the table.
session_add(rows, row) == Append(rows, row)

\* datetime.now(): the clock has not gone back since it was last read.
ReadClock == now' \in now..MaxClock

(***************************************************************************)
(* log_etl_run: one new row of etl_runs.                                   *)
(***************************************************************************)
log_etl_run(status, started, finished, records, message) ==
  [id |-> Len(etl_runs) + 1,
   status |-> status,
   started_at |-> started,
   finished_at |-> finished,
   records_processed |-> records,
   error_message |-> message,
   duration_seconds |-> IF finished # None THEN Some(finished[1] - started) ELSE None]

(***************************************************************************)
(* run_full_pipeline.                                                      *)
(***************************************************************************)
\* Entry: started_at = datetime.now(), total_records = 0, first dataset.
EnterPipeline(who) ==
  /\ ReadClock
  /\ started_at' = now'
  /\ pc' = "download"
  /\ frame' = "run_full_pipeline"
  /\ caller' = who
  /\ total_records' = 0
  /\ file_idx' = 1
  /\ file_key' = file_processors[1]
  /\ result' = None
  /\ error' = None
  /\ loaded' = <<>>
  /\ fetched' = <<>>
  /\ refreshed' = "no"
  /\ committed' = 0
  /\ finish_writes' = <<>>
  /\ runs_begun' = runs_begun + 1
  /\ ratings_before' = actor_ratings

\* Mutant of NextStep: the refresh starts before the last dataset is loaded.
NextStep_early(i) == IF i < Len(file_processors) - 1 THEN "download" ELSE "refresh"

\* Mutant of NextStep: the refresh follows the first load.
NextStep_refresh(i) == "refresh"

\* The position after the dataset at index i of file_processors.
NextStep(i) == IF i < Len(file_processors) THEN "download" ELSE "refresh"

\* The processor returned: total_records += records, then the next dataset,
\* or the refresh after the last one.
pipeline_next ==
  /\ pc = "load_returned"
  /\ frame = "run_full_pipeline"
  /\ total_records' = total_records + records_processed
  /\ loaded' = Append(loaded, file_key)
  /\ pc' = NextStep(file_idx)
  /\ IF NextStep(file_idx) = "download"
       THEN /\ file_idx' = file_idx + 1
            /\ file_key' = file_processors[file_idx + 1]
       ELSE UNCHANGED <<file_idx, file_key>>
  /\ UNCHANGED <<local_file, dbVars, now, frame, caller, started_at, result,
                 exit_code, refreshed, fetched, finish_writes, loaderVars, error, apiVars,
                 runs_begun, committed, last_fetch, restVars>>

\* Mutant of FailedStatus: the except branch logs the run as completed.
FailedStatus_completed == "completed"

\* The status the except branch writes.
FailedStatus == "failed"

\* Both ends of run_full_pipeline: the run is logged and the result returned.
FinishRun(status, message) ==
  /\ ReadClock
  /\ etl_runs' = session_add(etl_runs,
                             log_etl_run(status, started_at, Some(now'), total_records,
                                         message))
  /\ finish_writes' = Append(finish_writes, status)
  /\ result' = Some([success |-> (status = "completed"),
                     run_id |-> Len(etl_runs) + 1,
                     error |-> message,
                     records_processed |-> total_records])
  /\ pc' = "returned"
  /\ UNCHANGED <<local_file, table, principal_seq, actor_ratings, frame, caller, error,
                 started_at, total_records, file_idx, exit_code, loaded, fetched,
                 refreshed, file_key, loaderVars, apiVars, runs_begun, committed,
                 last_fetch, restVars>>

pipeline_completed ==
  /\ pc = "refresh_returned"
  /\ frame = "run_full_pipeline"
  /\ FinishRun("completed", None)

pipeline_except ==
  /\ pc = "raised"
  /\ frame = "run_full_pipeline"
  /\ FinishRun(FailedStatus, error)

(***************************************************************************)
(* main: the command line runs the full pipeline and exits 1 on failure.   *)
(***************************************************************************)
main ==
  /\ pc = "idle"
  /\ runs_begun < MaxRuns
  /\ EnterPipeline("main")
  /\ exit_code' = None
  /\ UNCHANGED <<local_file, dbVars, loaderVars, apiVars, last_fetch, faults,
                 first_load, first_refresh, cancelled, forced, conn, query,
          view_reads>>

\* Mutant of ExitCode: the command line exits 0 whatever the result.
ExitCode_zero(res) == 0

ExitCode(res) == IF res.success THEN 0 ELSE 1

main_exit ==
  /\ pc = "returned"
  /\ caller = "main"
  /\ exit_code' = Some(ExitCode(result[1]))
  /\ pc' = "idle"
  /\ UNCHANGED <<local_file, dbVars, now, frame, caller, started_at, total_records,
                 file_idx, result, loaded, fetched, refreshed, finish_writes,
                 file_key, loaderVars, error, apiVars, runs_begun, committed,
                 last_fetch, restVars>>

(***************************************************************************)
(* The control surface: POST /etl/start and its background task.           *)
(***************************************************************************)
\* get_latest_etl_run: ORDER BY started_at DESC, first row; rows that share
\* the latest started_at may come in either order.
LatestRuns ==
  {i \in 1..Len(etl_runs) :
     \A j \in 1..Len(etl_runs) : etl_runs[j].started_at <= etl_runs[i].started_at}

\* ETLFileType, and file_mapping of run_etl_background.
ETLFileType == {"people", "titles", "ratings", "principals"}

file_mapping(file_type) ==
  CASE file_type = "people" -> "name_basics"
    [] file_type = "titles" -> "title_basics"
    [] file_type = "ratings" -> "title_ratings"
    [] file_type = "principals" -> "title_principals"

\* The handlers of the control surface read and write etl_runs only, which
\* a pipeline execution touches at its end only: a request that arrives
\* during an execution is taken before its first dataset.
AtRequestPoint ==
  \/ pc \in {"idle", "returned"}
  \/ pc = "download" /\ file_idx = 1

start_etl ==
  /\ AtRequestPoint
  /\ starts < MaxStarts
  /\ starts' = starts + 1
  /\ \E force \in BOOLEAN :
       /\ forced' = (forced \/ force)
       /\ \/ /\ ~force
             /\ \E i \in LatestRuns : etl_runs[i].status = "running"
             /\ last_response' = 409
             /\ UNCHANGED <<etl_runs, tasks, now>>
          \/ /\ force \/ LatestRuns = {} \/ \E i \in LatestRuns : etl_runs[i].status # "running"
             /\ ReadClock
             /\ etl_runs' = session_add(etl_runs,
                                        log_etl_run("running", now', None, 0, None))
             /\ \E file_type \in {None} \cup {Some(t) : t \in ETLFileType} :
                  tasks' = Append(tasks, [run_id |-> Len(etl_runs) + 1,
                                          file_type |-> file_type])
             /\ last_response' = 200
  /\ UNCHANGED <<local_file, table, principal_seq, actor_ratings, pc, frame,
                 pipelineVars, file_key, loaderVars, error, task_run_id, runs_begun,
                 committed, last_fetch, faults, first_load, first_refresh,
                 ratings_before, cancelled, conn, query, view_reads>>

\* DELETE /etl/cancel/{run_id}: 404 for an unknown run, 400 for a run that is
\* not running, else log_etl_run("failed", ...) with the run's started_at.
CancelRows == {i \in 1..Len(etl_runs) : etl_runs[i].error_message = Some("Cancelled by user")}

cancel_etl_run ==
  /\ AtRequestPoint
  /\ \E run_id \in 1..(Len(etl_runs) + 1) :
       IF run_id > Len(etl_runs)
         THEN /\ last_response' = 404
              /\ UNCHANGED <<etl_runs, now, cancelled>>
         ELSE IF etl_runs[run_id].status # "running"
           THEN /\ last_response' = 400
                /\ UNCHANGED <<etl_runs, now, cancelled>>
           ELSE /\ Cardinality(CancelRows) < MaxCancels
                /\ ReadClock
                /\ etl_runs' = session_add(etl_runs,
                                           log_etl_run("failed",
                                                       etl_runs[run_id].started_at,
                                                       Some(now'),
                                                       etl_runs[run_id].records_processed,
                                                       Some("Cancelled by user")))
                /\ cancelled' = cancelled \cup {run_id}
                /\ last_response' = 200
  /\ UNCHANGED <<local_file, table, principal_seq, actor_ratings, pc, frame,
                 pipelineVars, file_key, loaderVars, error, task_run_id, runs_begun,
                 committed, last_fetch, faults, first_load, first_refresh,
                 ratings_before, forced, tasks, starts, conn,
                 query, view_reads>>

\* What the read handlers leave alone: everything but the response.
ReadFrame == <<local_file, dbVars, now, pc, frame, pipelineVars, file_key, loaderVars,
               error, tasks, task_run_id, starts, runs_begun, committed, last_fetch,
               restVars>>

\* GET /etl/status: the run of the given id, 404 when there is none;
\* without id the latest run, or "never_run".
get_etl_status ==
  /\ AtRequestPoint
  /\ \E run_id \in 0..(Len(etl_runs) + 1) :
       last_response' = IF run_id > Len(etl_runs) THEN 404 ELSE 200
  /\ UNCHANGED ReadFrame

\* get_etl_runs(limit): the rows ORDER BY started_at DESC LIMIT :limit, as
\* the sets of row ids it may return.
get_etl_runs(limit) ==
  {S \in SUBSET (1..Len(etl_runs)) :
     /\ Cardinality(S) = (IF limit < Len(etl_runs) THEN limit ELSE Len(etl_runs))
     /\ \A i \in S : \A j \in (1..Len(etl_runs)) \ S :
          etl_runs[j].started_at <= etl_runs[i].started_at}

\* GET /etl/history?limit=: the recent runs.
get_etl_history ==
  /\ AtRequestPoint
  /\ \E limit \in 1..2 : \E S \in get_etl_runs(limit) : last_response' = 200
  /\ UNCHANGED ReadFrame

\* run_etl_background with a file type: that dataset alone is fetched and
\* loaded, then the refresh; no run is logged.
EnterSingle(key) ==
  /\ pc' = "download"
  /\ frame' = "run_etl_background"
  /\ caller' = "background"
  /\ file_key' = key
  /\ result' = None
  /\ error' = None
  /\ loaded' = <<>>
  /\ fetched' = <<>>
  /\ refreshed' = "no"
  /\ committed' = 0
  /\ finish_writes' = <<>>
  /\ runs_begun' = runs_begun + 1
  /\ ratings_before' = actor_ratings
  /\ UNCHANGED <<now, started_at, total_records, file_idx>>

\* The background task begins: the full pipeline without a file type.
run_etl_background ==
  /\ pc = "idle"
  /\ tasks # <<>>
  /\ runs_begun < MaxTasks
  /\ tasks' = Tail(tasks)
  /\ task_run_id' = Some(Head(tasks).run_id)
  /\ IF Head(tasks).file_type = None
       THEN EnterPipeline("background")
       ELSE EnterSingle(file_mapping(Head(tasks).file_type[1]))
  /\ UNCHANGED <<local_file, dbVars, exit_code, loaderVars, starts,
                 last_response, last_fetch, faults, first_load, first_refresh,
                 cancelled, forced, conn, query,
          view_reads>>

\* Single file: records = processor(file_path), then the refresh.
single_file_next ==
  /\ pc = "load_returned"
  /\ frame = "run_etl_background"
  /\ loaded' = Append(loaded, file_key)
  /\ pc' = "refresh"
  /\ UNCHANGED <<local_file, dbVars, now, frame, caller, started_at, total_records,
                 file_idx, file_key, result, exit_code, refreshed, fetched,
                 finish_writes, loaderVars, error, apiVars, runs_begun, committed,
                 last_fetch, restVars>>

\* Single file: the task ends when the refresh has returned, or when a step
\* raised: the exception is logged and raised again.
single_file_end ==
  /\ pc \in {"refresh_returned", "raised"}
  /\ frame = "run_etl_background"
  /\ pc' = "idle"
  /\ UNCHANGED <<local_file, dbVars, now, frame, caller, started_at, total_records,
                 file_idx, result, exit_code, loaded, fetched, refreshed,
                 finish_writes, file_key, loaderVars, error, apiVars, runs_begun,
                 committed, last_fetch, restVars>>

background_end ==
  /\ pc = "returned"
  /\ caller = "background"
  /\ pc' = "idle"
  /\ UNCHANGED <<local_file, dbVars, now, frame, caller, started_at, total_records,
                 file_idx, result, exit_code, loaded, fetched, refreshed,
                 finish_writes, file_key, loaderVars, error, apiVars, runs_begun,
                 committed, last_fetch, restVars>>

(***************************************************************************)
(* The records a loader emits for a file, line by line, and the rows a     *)
(* table holds after a load of it that met no failure.                     *)
(***************************************************************************)
RECURSIVE Emitted(_, _)
Emitted(key, lines) ==
  IF lines = <<>> THEN <<>>
  ELSE LET r == parse_line(key, Head(lines)) IN
       (IF r.kind = "record" THEN <<r.rec>> ELSE <<>>) \o Emitted(key, Tail(lines))

DataLines(file) == IF file = <<>> THEN <<>> ELSE Tail(file)

\* The previous version of a dataset's file: the served one less its last line.
OlderFile(key) == SubSeq(RemoteFile(key), 1, Len(RemoteFile(key)) - 1)

PriorRows(key) == RowsOf(key, Emitted(key, DataLines(OlderFile(key))), 0)

(***************************************************************************)
(* The pipeline and its control surface.  The tables hold the rows of an   *)
(* earlier load; the data directory is empty.                              *)
(***************************************************************************)
Init ==
  /\ local_file = [k \in FileKeys |-> None]
  /\ table = [k \in FileKeys |-> PriorRows(k)]
  /\ principal_seq = Len(PriorRows("title_principals"))
  /\ actor_ratings = AggregateRows(PriorRows("name_basics"),
                                   PriorRows("title_principals"),
                                   PriorRows("title_basics"),
                                   PriorRows("title_ratings"))
  /\ etl_runs = <<>>
  /\ now = 0
  /\ pc = "idle"
  /\ frame = "none"
  /\ caller = "none"
  /\ started_at = 0
  /\ total_records = 0
  /\ file_idx = 1
  /\ file_key = file_processors[1]
  /\ cursor = 1
  /\ batch = <<>>
  /\ records_processed = 0
  /\ error = None
  /\ result = None
  /\ exit_code = None
  /\ tasks = <<>>
  /\ task_run_id = None
  /\ runs_begun = 0
  /\ starts = 0
  /\ last_response = 0
  /\ loaded = <<>>
  /\ fetched = <<>>
  /\ refreshed = "no"
  /\ committed = 0
  /\ commit_failed = FALSE
  /\ lines_read = 0
  /\ last_fetch = [key |-> "none", probe |-> "none", get |-> "none",
                   had |-> FALSE, length |-> FALSE]
  /\ finish_writes = <<>>
  /\ table_before = <<>>
  /\ first_load = None
  /\ first_refresh = None
  /\ ratings_before = {}
  /\ cancelled = {}
  /\ forced = FALSE
  /\ conn = Connected
  /\ query = NoQuery
  /\ view_reads = <<>>
  /\ faults = 0

Next ==
  \/ main
  \/ main_exit
  \/ download_file
  \/ process_delete
  \/ process_open
  \/ process_line
  \/ process_final
  \/ pipeline_next
  \/ refresh_materialized_view
  \/ pipeline_completed
  \/ pipeline_except

Spec == Init /\ [][Next]_vars

(***************************************************************************)
(* The pipeline together with the control surface that starts it in the    *)
(* background.                                                             *)
(***************************************************************************)
NextApi ==
  \/ start_etl
  \/ run_etl_background
  \/ background_end
  \/ single_file_next
  \/ single_file_end
  \/ cancel_etl_run
  \/ get_etl_status
  \/ get_etl_history
  \/ download_file
  \/ process_delete
  \/ process_open
  \/ process_line
  \/ process_final
  \/ pipeline_next
  \/ refresh_materialized_view
  \/ pipeline_completed
  \/ pipeline_except

SpecApi == Init /\ [][NextApi]_vars

(***************************************************************************)
(* One loader called twice in a row on the same source file, for every     *)
(* dataset, every short file over a pool of its lines and a destination    *)
(* table that is empty or holds the rows of an earlier load.               *)
(***************************************************************************)
PoolIndexes(key) ==
  CASE key = "name_basics" -> {1, 2, 3, 4}
    [] key = "title_basics" -> {1, 2, 3, 4}
    [] key = "title_ratings" -> {1, 2, 3, 4}
    [] key = "title_principals" -> {1, 2, 3}

LinePool(key) == {LinesOf(key)[i] : i \in PoolIndexes(key)}

SeqsUpTo(S, n) == UNION {[1..m -> S] : m \in 0..n}

\* The first line of a file is its header, whatever it holds.
SourceFiles(key) ==
  {<<>>} \cup {<<h>> \o body : h \in {Header, LinesOf(key)[1]},
                               body \in SeqsUpTo(LinePool(key), MaxLines)}

\* The first load returned: the same loader is called again on the same file.
load_again ==
  /\ pc = "load_returned"
  /\ frame = "harness"
  /\ first_load = None
  /\ first_load' = Some([records |-> records_processed,
                         rows |-> table[file_key],
                         before |-> table_before])
  /\ pc' = "process_delete"
  /\ UNCHANGED <<local_file, dbVars, now, frame, pipelineVars, file_key, loaderVars,
                 error, apiVars, runs_begun, committed, last_fetch, faults, histVars>>

InitLoad ==
  /\ file_key \in FileKeys
  /\ \E f \in SourceFiles(file_key) :
       local_file = [k \in FileKeys |-> IF k = file_key THEN Some(f) ELSE None]
  /\ \E rows \in {<<>>, PriorRows(file_key)} :
       table = [k \in FileKeys |-> IF k = file_key THEN rows ELSE <<>>]
  /\ principal_seq = Len(PriorRows("title_principals"))
  /\ actor_ratings = {}
  /\ etl_runs = <<>>
  /\ now = 0
  /\ pc = "process_delete"
  /\ frame = "harness"
  /\ caller = "none"
  /\ started_at = 0
  /\ total_records = 0
  /\ file_idx = 1
  /\ cursor = 1
  /\ batch = <<>>
  /\ records_processed = 0
  /\ error = None
  /\ result = None
  /\ exit_code = None
  /\ tasks = <<>>
  /\ task_run_id = None
  /\ runs_begun = 0
  /\ starts = 0
  /\ last_response = 0
  /\ loaded = <<>>
  /\ fetched = <<>>
  /\ refreshed = "no"
  /\ committed = 0
  /\ commit_failed = FALSE
  /\ lines_read = 0
  /\ last_fetch = [key |-> "none", probe |-> "none", get |-> "none",
                   had |-> FALSE, length |-> FALSE]
  /\ finish_writes = <<>>
  /\ table_before = <<>>
  /\ first_load = None
  /\ first_refresh = None
  /\ ratings_before = {}
  /\ cancelled = {}
  /\ forced = FALSE
  /\ conn = Connected
  /\ query = NoQuery
  /\ view_reads = <<>>
  /\ faults = 0

NextLoad ==
  \/ process_delete
  \/ process_open
  \/ process_line
  \/ process_final
  \/ load_again

SpecLoad == InitLoad /\ [][NextLoad]_vars

(***************************************************************************)
(* refresh_materialized_view called twice in a row on base tables drawn    *)
(* from pools of rows: two persons who share a name, a title without       *)
(* rating, a person credited twice on one title.  actor_ratings is empty   *)
(* or holds a row of an earlier state of the tables.                       *)
(***************************************************************************)
PersonRow(nconst, name) ==
  [nconst |-> nconst, primary_name |-> Some(name), birth_year |-> None,
   death_year |-> None, primary_profession |-> Some("actor"),
   known_for_titles |-> None]

TitleRow(tconst, runtime) ==
  [tconst |-> tconst, title_type |-> Some("movie"), primary_title |-> Some(tconst),
   original_title |-> Some(tconst), is_adult |-> FALSE, start_year |-> None,
   end_year |-> None, runtime_minutes |-> runtime, genres |-> None]

RatingRow(tconst, rating, votes) ==
  [tconst |-> tconst, average_rating |-> rating, num_votes |-> votes]

CreditRecord(tconst, ordering, nconst, category) ==
  [tconst |-> tconst, ordering |-> ordering, nconst |-> nconst,
   category |-> category, job |-> None, characters |-> None]

PeoplePool == <<PersonRow("nm1", "Ann"), PersonRow("nm6", "Ann"), PersonRow("nm4", "Dee")>>

TitlesPool == <<TitleRow("tt1", Some(120)), TitleRow("tt2", Some(90)), TitleRow("tt3", None)>>

RatingsPool == <<RatingRow("tt1", 80, 1000), RatingRow("tt2", 90, 3000)>>

CreditsPool ==
  <<CreditRecord("tt1", 1, "nm1", "actor"),
    CreditRecord("tt2", 1, "nm1", "actor"),
    CreditRecord("tt3", 1, "nm1", "actor"),
    CreditRecord("tt1", 2, "nm1", "actor"),
    CreditRecord("tt2", 1, "nm6", "actor"),
    CreditRecord("tt1", 3, "nm4", "actress")>>

\* The rows of a pool at the positions of S, in the pool's order.
RECURSIVE Pick(_, _)
Pick(pool, S) ==
  IF pool = <<>> THEN <<>>
  ELSE (IF Len(pool) \in S THEN Pick(SubSeq(pool, 1, Len(pool) - 1), S) \o <<pool[Len(pool)]>>
        ELSE Pick(SubSeq(pool, 1, Len(pool) - 1), S))

Picks(pool) == {Pick(pool, S) : S \in SUBSET (1..Len(pool))}

\* A row left in actor_ratings by an earlier state of the tables.
StaleRow ==
  [primary_name |-> "Zed", profession |-> "actor", score |-> 700,
   number_of_titles |-> 1, total_runtime_minutes |-> 100]

\* The first refresh returned: refresh_materialized_view is called again.
refresh_again ==
  /\ pc = "refresh_returned"
  /\ frame = "harness"
  /\ first_refresh = None
  /\ first_refresh' = Some(actor_ratings)
  /\ pc' = "refresh"
  /\ UNCHANGED <<local_file, dbVars, now, frame, pipelineVars, file_key, loaderVars,
                 error, apiVars, runs_begun, committed, last_fetch, faults,
                 first_load, ratings_before, cancelled, forced, conn, query,
          view_reads>>

InitRefresh ==
  /\ local_file = [k \in FileKeys |-> None]
  /\ \E people \in Picks(PeoplePool), titles \in Picks(TitlesPool),
        ratings \in Picks(RatingsPool), credits \in Picks(CreditsPool) :
       /\ table = [k \in FileKeys |->
                     CASE k = "name_basics" -> people
                       [] k = "title_basics" -> titles
                       [] k = "title_ratings" -> ratings
                       [] k = "title_principals" -> RowsOf(k, credits, 0)]
       /\ principal_seq = Len(credits)
  /\ actor_ratings \in {{}, {StaleRow}}
  /\ ratings_before = actor_ratings
  /\ etl_runs = <<>>
  /\ now = 0
  /\ pc = "refresh"
  /\ frame = "harness"
  /\ caller = "none"
  /\ started_at = 0
  /\ total_records = 0
  /\ file_idx = 1
  /\ file_key = file_processors[1]
  /\ cursor = 1
  /\ batch = <<>>
  /\ records_processed = 0
  /\ error = None
  /\ result = None
  /\ exit_code = None
  /\ tasks = <<>>
  /\ task_run_id = None
  /\ runs_begun = 0
  /\ starts = 0
  /\ last_response = 0
  /\ loaded = <<>>
  /\ fetched = <<>>
  /\ refreshed = "no"
  /\ committed = 0
  /\ commit_failed = FALSE
  /\ lines_read = 0
  /\ last_fetch = [key |-> "none", probe |-> "none", get |-> "none",
                   had |-> FALSE, length |-> FALSE]
  /\ finish_writes = <<>>
  /\ table_before = <<>>
  /\ first_load = None
  /\ first_refresh = None
  /\ cancelled = {}
  /\ forced = FALSE
  /\ conn = Connected
  /\ query = NoQuery
  /\ view_reads = <<>>
  /\ faults = 0

NextRefresh ==
  \/ refresh_materialized_view
  \/ refresh_again

SpecRefresh == InitRefresh /\ [][NextRefresh]_vars

(***************************************************************************)
(* _init_database_connection(max_retries, retry_interval): the retry loop  *)
(* that sets up self.engine and self.Session.  Every attempt may fail in   *)
(* get_engine() or in the test query.                                      *)
(***************************************************************************)
\* The values of retry_interval; the code's default is 2 (seconds).
RetryIntervals == {1, 2}

\* How the try block of one attempt ends: get_engine() raised, the test
\* query raised after self.Session was assigned, or the return was reached.
AttemptOutcomes == {"engine_error", "query_error", "ok"}

\* Mutant of MoreAttempts: the handler sleeps after the last attempt as well.
MoreAttempts_always(attempt, max_retries) == TRUE

\* if attempt < max_retries - 1: sleep, else: raise
MoreAttempts(attempt, max_retries) == attempt < max_retries - 1

ConnFrame == <<local_file, dbVars, now, pc, frame, pipelineVars, file_key, loaderVars,
               error, apiVars, runs_begun, committed, last_fetch, faults, first_load,
               first_refresh, ratings_before, cancelled, forced, query, view_reads>>

\* One pass of the for loop: the try block and, when it raised, the handler
\* up to its call of time.sleep or its raise.
connect_attempt ==
  /\ conn.pc = "loop"
  /\ conn.attempt < conn.max_retries
  /\ \E o \in AttemptOutcomes :
       conn' = [conn EXCEPT
                  !.outcomes = Append(@, o),
                  !.Session = IF o = "engine_error" THEN @ ELSE TRUE,
                  !.verified = IF o = "engine_error" THEN @ ELSE (o = "ok"),
                  !.pc = IF o = "ok" THEN "returned"
                         ELSE IF MoreAttempts(conn.attempt, conn.max_retries)
                           THEN "sleep" ELSE "raised"]
  /\ UNCHANGED ConnFrame

\* time.sleep(retry_interval) returns: the next pass of the loop.
connect_sleep ==
  /\ conn.pc = "sleep"
  /\ conn' = [conn EXCEPT !.slept = @ + conn.retry_interval,
                          !.attempt = @ + 1,
                          !.pc = "loop"]
  /\ UNCHANGED ConnFrame

\* range(max_retries) is used up: the function ends and returns None.
connect_exhausted ==
  /\ conn.pc = "loop"
  /\ conn.attempt >= conn.max_retries
  /\ conn' = [conn EXCEPT !.pc = "returned"]
  /\ UNCHANGED ConnFrame

InitConnect ==
  /\ \E m \in 0..MaxRetries, r \in RetryIntervals :
       conn = [max_retries |-> m, retry_interval |-> r, attempt |-> 0,
               outcomes |-> <<>>, slept |-> 0, Session |-> FALSE,
               verified |-> FALSE, pc |-> "loop"]
  /\ query = NoQuery
  /\ view_reads = <<>>
  /\ local_file = [k \in FileKeys |-> None]
  /\ table = [k \in FileKeys |-> <<>>]
  /\ principal_seq = 0
  /\ actor_ratings = {}
  /\ etl_runs = <<>>
  /\ now = 0
  /\ pc = "init"
  /\ frame = "none"
  /\ caller = "none"
  /\ started_at = 0
  /\ total_records = 0
  /\ file_idx = 1
  /\ file_key = file_processors[1]
  /\ cursor = 1
  /\ batch = <<>>
  /\ records_processed = 0
  /\ error = None
  /\ result = None
  /\ exit_code = None
  /\ tasks = <<>>
  /\ task_run_id = None
  /\ runs_begun = 0
  /\ starts = 0
  /\ last_response = 0
  /\ loaded = <<>>
  /\ fetched = <<>>
  /\ refreshed = "no"
  /\ committed = 0
  /\ commit_failed = FALSE
  /\ lines_read = 0
  /\ last_fetch = [key |-> "none", probe |-> "none", get |-> "none",
                   had |-> FALSE, length |-> FALSE]
  /\ finish_writes = <<>>
  /\ table_before = <<>>
  /\ first_load = None
  /\ first_refresh = None
  /\ ratings_before = {}
  /\ cancelled = {}
  /\ forced = FALSE
  /\ faults = 0

NextConnect ==
  \/ connect_attempt
  \/ connect_sleep
  \/ connect_exhausted

\* The function is sequential code: an attempt ends and a sleep returns.
SpecConnect == InitConnect /\ [][NextConnect]_vars /\ WF_vars(NextConnect)

(***************************************************************************)
(* GET /actors: the handler of api.py, and the handler of routers/main.py  *)
(* over DatabaseService.get_actors_paginated.  Both count the rows of the  *)
(* profession and select them ORDER BY score DESC, number_of_titles DESC   *)
(* LIMIT :limit OFFSET :offset.                                            *)
(***************************************************************************)
AggregateRow(name, profession, score, titles, runtime) ==
  [primary_name |-> name, profession |-> profession, score |-> score,
   number_of_titles |-> titles, total_runtime_minutes |-> runtime]

\* Rows actor_ratings may hold: two rows share score and number_of_titles.
AggregatePool ==
  {AggregateRow("Ann", "actor", 900, 2, 210),
   AggregateRow("Bob", "actor", 900, 1, 90),
   AggregateRow("Cy", "actor", 800, 2, 200),
   AggregateRow("Eli", "actor", 800, 2, 100),
   AggregateRow("Dee", "actress", 850, 1, 120),
   AggregateRow("Fay", "actress", 950, 3, 300)}

\* Config.TARGET_PROFESSIONS, settings.target_professions
target_professions == {"actor", "actress"}

\* The values of the request parameters, and the limits of Query(ge=, le=).
Professions == {"actor", "actress", "director"}
MAX_LIMIT == 1000
Limits == {-1, 0, 1, 2, 3, MAX_LIMIT, MAX_LIMIT + 1}
Offsets == -1..MaxOffset

\* Mutant of OrderedBefore: ascending score.
OrderedBefore_asc(a, b) ==
  \/ a.score < b.score
  \/ a.score = b.score /\ a.number_of_titles > b.number_of_titles

\* ORDER BY score DESC, number_of_titles DESC: a comes before b.
OrderedBefore(a, b) ==
  \/ a.score > b.score
  \/ a.score = b.score /\ a.number_of_titles > b.number_of_titles

\* The orders in which the storage may return rows under the ORDER BY: rows
\* equal in both keys come in any order.
Orderings(rows) ==
  {s \in [1..Cardinality(rows) -> rows] :
     /\ \A i, j \in 1..Cardinality(rows) : i # j => s[i] # s[j]
     /\ \A i, j \in 1..Cardinality(rows) : i < j => ~OrderedBefore(s[j], s[i])}

Min(a, b) == IF a < b THEN a ELSE b

\* LIMIT :limit OFFSET :offset
LimitOffset(s, limit, offset) == SubSeq(s, offset + 1, Min(offset + limit, Len(s)))

\* ActorRating.to_dict, and the SELECT list of api.py.
to_dict(row) ==
  [name |-> row.primary_name, score |-> row.score,
   number_of_titles |-> row.number_of_titles,
   total_runtime_minutes |-> row.total_runtime_minutes,
   profession |-> row.profession]

\* ActorResponse(name, score, number_of_titles, total_runtime_minutes)
ActorResponse(actor) ==
  [name |-> actor.name, score |-> actor.score,
   number_of_titles |-> actor.number_of_titles,
   total_runtime_minutes |-> actor.total_runtime_minutes]

\* DatabaseService.get_actors_paginated: the possible results.
get_actors_paginated(profession, limit, offset) ==
  LET rows == {r \in actor_ratings : r.profession = profession} IN
  {[actors |-> [i \in 1..Len(LimitOffset(s, limit, offset)) |->
                  to_dict(LimitOffset(s, limit, offset)[i])],
    total_count |-> Cardinality(rows),
    limit |-> limit, offset |-> offset, profession |-> profession] :
     s \in Orderings(rows)}

\* Query(ge=1, le=MAX_LIMIT) and Query(ge=0): the framework answers 422
\* before the handler is entered.
ParametersValid(limit, offset) == limit >= 1 /\ limit <= MAX_LIMIT /\ offset >= 0

Request(handler, profession, limit, offset) ==
  [handler |-> handler, profession |-> profession, limit |-> limit, offset |-> offset]

Answer(req, status, body) ==
  [handler |-> req.handler, profession |-> req.profession, limit |-> req.limit,
   offset |-> req.offset, status |-> status, body |-> body]

Rejected(req) ==
  IF ~ParametersValid(req.limit, req.offset)
    THEN Answer(req, 422, [detail |-> "validation"])
    ELSE Answer(req, 400, [detail |-> "profession"])

\* The handlers only read the storage: one request is followed from each
\* content of actor_ratings.
QueryFrame == <<local_file, table, principal_seq, etl_runs, now, pc, frame,
                pipelineVars, file_key, loaderVars, error, apiVars, runs_begun,
                committed, last_fetch, faults, first_load, first_refresh,
                ratings_before, cancelled, forced, conn, view_reads>>

\* get_actors of api.py: ActorsListResponse(actors, total, limit, offset, profession)
get_actors ==
  /\ query = NoQuery
  /\ \E profession \in Professions, limit \in Limits, offset \in Offsets :
       LET req == Request("api", profession, limit, offset) IN
       IF ~ParametersValid(limit, offset) \/ profession \notin target_professions
         THEN query' = Rejected(req)
         ELSE \E res \in get_actors_paginated(profession, limit, offset) :
                query' = Answer(req, 200,
                                [actors |-> [i \in 1..Len(res.actors) |->
                                               ActorResponse(res.actors[i])],
                                 total |-> res.total_count,
                                 limit |-> limit,
                                 offset |-> offset,
                                 profession |-> profession])
  /\ UNCHANGED <<QueryFrame, actor_ratings>>

\* get_actors of routers/main.py without search term:
\* ActorsListResponse(actors, profession, pagination)
main_get_actors ==
  /\ query = NoQuery
  /\ \E profession \in Professions, limit \in Limits, offset \in Offsets :
       LET req == Request("router", profession, limit, offset) IN
       IF ~ParametersValid(limit, offset) \/ profession \notin target_professions
         THEN query' = Rejected(req)
         ELSE \E res \in get_actors_paginated(profession, limit, offset) :
                query' = Answer(req, 200,
                                [actors |-> [i \in 1..Len(res.actors) |->
                                               ActorResponse(res.actors[i])],
                                 profession |-> res.profession,
                                 pagination |-> [total |-> res.total_count,
                                                 limit |-> res.limit,
                                                 offset |-> res.offset]])
  /\ UNCHANGED <<QueryFrame, actor_ratings>>

InitQuery ==
  /\ actor_ratings \in SUBSET AggregatePool
  /\ query = NoQuery
  /\ view_reads = <<>>
  /\ conn = Connected
  /\ local_file = [k \in FileKeys |-> None]
  /\ table = [k \in FileKeys |-> <<>>]
  /\ principal_seq = 0
  /\ etl_runs = <<>>
  /\ now = 0
  /\ pc = "serving"
  /\ frame = "none"
  /\ caller = "none"
  /\ started_at = 0
  /\ total_records = 0
  /\ file_idx = 1
  /\ file_key = file_processors[1]
  /\ cursor = 1
  /\ batch = <<>>
  /\ records_processed = 0
  /\ error = None
  /\ result = None
  /\ exit_code = None
  /\ tasks = <<>>
  /\ task_run_id = None
  /\ runs_begun = 0
  /\ starts = 0
  /\ last_response = 0
  /\ loaded = <<>>
  /\ fetched = <<>>
  /\ refreshed = "no"
  /\ committed = 0
  /\ commit_failed = FALSE
  /\ lines_read = 0
  /\ last_fetch = [key |-> "none", probe |-> "none", get |-> "none",
                   had |-> FALSE, length |-> FALSE]
  /\ finish_writes = <<>>
  /\ table_before = <<>>
  /\ first_load = None
  /\ first_refresh = None
  /\ ratings_before = {}
  /\ cancelled = {}
  /\ forced = FALSE
  /\ faults = 0

NextQuery ==
  \/ get_actors
  \/ main_get_actors

SpecQuery == InitQuery /\ [][NextQuery]_vars

(***************************************************************************)
(* POST /etl/refresh-view beside a pipeline execution.  The handler builds *)
(* its own IMDbETL and calls refresh_materialized_view with no look at     *)
(* etl_runs or at the loaders, so the request is served at any position of *)
(* an execution.                                                           *)
(***************************************************************************)
\* The datasets whose loader has returned in the execution in progress.
FreshTables ==
  IF pc \in {"idle", "returned"} THEN {}
  ELSE {loaded[i] : i \in 1..Len(loaded)}
         \cup (IF pc = "load_returned" THEN {file_key} ELSE {})

\* The dataset whose loader stands between the commit of its delete and the
\* commit of its last batch.
LoadingTables ==
  IF pc \in {"process_open", "process_line"} THEN {file_key} ELSE {}

post_refresh_view ==
  /\ Len(view_reads) < MaxViewRequests
  /\ \/ /\ NoFault
        /\ actor_ratings' = Replaced(actor_ratings,
                                     AggregateRows(table["name_basics"],
                                                   table["title_principals"],
                                                   table["title_basics"],
                                                   table["title_ratings"]))
        /\ view_reads' = Append(view_reads, [loading |-> LoadingTables,
                                             fresh |-> FreshTables])
        /\ last_response' = 200
     \/ /\ Fault
        /\ last_response' = 500
        /\ UNCHANGED <<actor_ratings, view_reads>>
     \/ /\ Fault
        /\ actor_ratings' = Deleted(actor_ratings)
        /\ last_response' = 500
        /\ UNCHANGED view_reads
  /\ UNCHANGED <<local_file, table, principal_seq, etl_runs, now, pc, frame,
                 pipelineVars, file_key, loaderVars, error, tasks, task_run_id,
                 starts, runs_begun, committed, last_fetch, first_load,
                 first_refresh, ratings_before, cancelled, forced, conn, query>>

NextView ==
  \/ start_etl
  \/ run_etl_background
  \/ background_end
  \/ single_file_next
  \/ single_file_end
  \/ post_refresh_view
  \/ download_file
  \/ process_delete
  \/ process_open
  \/ process_line
  \/ process_final
  \/ pipeline_next
  \/ refresh_materialized_view
  \/ pipeline_completed
  \/ pipeline_except

SpecView == Init /\ [][NextView]_vars

(***************************************************************************)
(* Properties.                                                             *)
(***************************************************************************)
Last(seq) == seq[Len(seq)]

IsPrefix(p, q) == Len(p) <= Len(q) /\ p = SubSeq(q, 1, Len(p))

\* The run has ended: run_full_pipeline returned, or its caller went on.
RunEnded == pc = "returned" \/ (pc = "idle" /\ runs_begun > 0)

LoaderErrors == {Some("DeleteError"), Some("OpenError"), Some("ReadError"),
                 Some("CommitError")}

FetchErrors == {Some("HeadError"), Some("GetError")}

RefreshErrors == {Some("RefreshDeleteError"), Some("RefreshInsertError")}

InLoader == pc \in {"process_delete", "process_open", "process_line", "load_returned"}

\* C1: every execution of run_full_pipeline, whether its steps raise or
\* return, makes exactly one finish write with log_etl_run; the status
\* written is "completed" exactly when the four loads and the aggregation
\* succeeded, and "failed" otherwise.
FinishWrittenOnce ==
  /\ Len(finish_writes) <= 1
  /\ ~RunEnded => finish_writes = <<>>
  /\ Len(etl_runs) = runs_begun - (IF pc = "idle" \/ pc = "returned" THEN 0 ELSE 1)
  /\ RunEnded =>
       /\ Len(finish_writes) = 1
       /\ finish_writes[1] \in {"completed", "failed"}
       /\ (finish_writes[1] = "completed") <=>
            (loaded = file_processors /\ refreshed = "done")
       /\ Last(etl_runs).status = finish_writes[1]

\* Witness of C1: a run that failed after some loads had returned has ended.
FinishWrittenOnceWitness ==
  /\ pc = "returned"
  /\ error # None
  /\ Len(loaded) >= 1
  /\ finish_writes = <<"failed">>

\* C3: in a full pipeline run the datasets are fetched and loaded in the
\* order people, titles, ratings, credits, the load of a dataset returns
\* before the next fetch starts, and the aggregation starts only after the
\* four loads of the run have returned.
OrderedLoads ==
  /\ IsPrefix(fetched, file_processors)
  /\ IsPrefix(loaded, file_processors)
  /\ Len(loaded) <= Len(fetched)
  /\ Len(fetched) <= Len(loaded) + 1
  /\ pc = "download" => Len(fetched) = Len(loaded)
  /\ InLoader =>
       /\ Len(fetched) = Len(loaded) + 1
       /\ file_key = Last(fetched)
  /\ (refreshed # "no" \/ pc \in {"refresh", "refresh_returned"}) =>
       loaded = file_processors

\* Witness of C3: the aggregation has run after the four loads.
OrderedLoadsWitness ==
  /\ pc = "refresh_returned"
  /\ refreshed = "done"
  /\ fetched = file_processors
  /\ loaded = file_processors

\* C4: when a step of the full pipeline raises, run_full_pipeline returns
\* to its caller a result with success = false and the exception's message,
\* the failed run record carries the same message, and the command line
\* exits with a status other than zero.
FailureReturned ==
  /\ (pc = "idle" /\ runs_begun > 0) => result # None
  /\ (RunEnded /\ error # None) =>
       /\ result # None
       /\ result[1].success = FALSE
       /\ result[1].error = error
       /\ result[1].run_id \in 1..Len(etl_runs)
       /\ etl_runs[result[1].run_id].status = "failed"
       /\ etl_runs[result[1].run_id].error_message = error
       /\ (pc = "idle" /\ caller = "main") => (exit_code # None /\ exit_code[1] # 0)

\* Witness of C4: the command line has exited after a failed aggregation.
FailureReturnedWitness ==
  /\ pc = "idle"
  /\ caller = "main"
  /\ error = Some("RefreshInsertError")
  /\ exit_code = Some(1)

\* C2: the run record created with status "running" when a run is started
\* is the record that is changed, once, at the end of that run to
\* "completed" or "failed", with its finish time and duration filled in; no
\* record stays "running" after its run has ended.
RunRecordFinished ==
  (caller = "background" /\ RunEnded /\ task_run_id # None) =>
     /\ etl_runs[task_run_id[1]].status \in {"completed", "failed"}
     /\ etl_runs[task_run_id[1]].finished_at # None
     /\ etl_runs[task_run_id[1]].duration_seconds # None

\* C5: when a load fails partway through a dataset, the failed run record's
\* records_processed is the number of records committed before the failure,
\* the committed batches of the failing dataset included.
PartialCountRecorded ==
  (pc = "returned" /\ error # None) =>
     Last(etl_runs).records_processed = committed

\* C6: a commit failure of any batch of a load, inside the line loop or at
\* the final flush, aborts the load with an error: after it the loader reads
\* no further line, commits no later batch and does not return normally.
CommitFailureAborts ==
  commit_failed =>
     /\ ~(pc \in {"process_line", "load_returned"})
     /\ error = Some("CommitError")

\* C9: when a load fails before any replacement record was committed, the
\* destination table still holds the rows it held when the load began.
FailedLoadKeepsRows ==
  (pc = "raised" /\ error \in LoaderErrors /\ records_processed = 0) =>
     table[file_key] = table_before

\* C10: a failure of the metadata probe is not fatal to download_file: the
\* download is still made, and download_file raises only if it fails.
ProbeFailureNotFatal ==
  last_fetch.probe = "error" =>
     /\ last_fetch.get # "none"
     /\ (pc = "raised" => last_fetch.get = "error")

\* The lines of a file a loader does not turn into a record.
RECURSIVE SkippedCount(_, _)
SkippedCount(key, lines) ==
  IF lines = <<>> THEN 0
  ELSE (IF parse_line(key, Head(lines)).kind = "record" THEN 0 ELSE 1)
       + SkippedCount(key, Tail(lines))

\* C7: the first line of a file is skipped as its header, and a malformed
\* data line is skipped without ending the parse: only a failure of the
\* environment aborts a load, never the parse of a line; a load that returns
\* has taken every line of the file, and the records it counts are the data
\* lines less the skipped ones.
SkipAndContinue ==
  /\ pc = "raised" => error \in LoaderErrors \cup FetchErrors \cup RefreshErrors
  /\ pc = "process_line" => lines_read = cursor - 1
  /\ pc = "load_returned" =>
       LET file == local_file[file_key][1] IN
       /\ lines_read = Len(file)
       /\ records_processed = Len(Emitted(file_key, DataLines(file)))
       /\ records_processed =
            Len(DataLines(file)) - SkippedCount(file_key, DataLines(file))

\* Witness of C7: a ratings load returned records from a file in which a
\* line that raised an exception is followed by a line that was loaded.
SkipAndContinueWitness ==
  /\ pc = "load_returned"
  /\ file_key = "title_ratings"
  /\ records_processed >= 1
  /\ LET file == local_file[file_key][1] IN
     \E i, j \in 2..Len(file) :
       /\ i < j
       /\ parse_line(file_key, file[i]).kind = "error"
       /\ parse_line(file_key, file[j]).kind = "record"

\* The records of a table's rows, in order.
Records(key, rows) == [i \in 1..Len(rows) |-> RecordOf(key, rows[i])]

\* C8: a load replaces the table: after a load of a file the table holds
\* exactly the records of that file, whatever it held before, and a second
\* load of the same file leaves the same records and returns the same count.
LoadIdempotent ==
  (pc = "load_returned" /\ frame = "harness") =>
     LET R == Emitted(file_key, DataLines(local_file[file_key][1])) IN
     /\ Records(file_key, table[file_key]) = R
     /\ records_processed = Len(R)
     /\ first_load # None =>
          /\ first_load[1].records = records_processed
          /\ Records(file_key, first_load[1].rows) = R

\* Witness of C8: the second load of a file returned, on a table that held
\* earlier rows before the first load.
LoadIdempotentWitness ==
  /\ pc = "load_returned"
  /\ first_load # None
  /\ first_load[1].before # <<>>
  /\ Len(table[file_key]) >= 2

Columns(key) ==
  CASE key = "name_basics" ->
         <<"nconst", "primary_name", "birth_year", "death_year",
           "primary_profession", "known_for_titles">>
    [] key = "title_basics" ->
         <<"tconst", "title_type", "primary_title", "original_title", "is_adult",
           "start_year", "end_year", "runtime_minutes", "genres">>
    [] key = "title_ratings" -> <<"tconst", "average_rating", "num_votes">>
    [] key = "title_principals" ->
         <<"tconst", "ordering", "nconst", "category", "job", "characters">>

\* The columns a loader always gives a value: the field's text, a boolean or
\* an integer, never None.
ValuedColumns(key) ==
  CASE key = "name_basics" -> {"nconst"}
    [] key = "title_basics" -> {"tconst", "is_adult"}
    [] key = "title_ratings" -> {"tconst", "average_rating", "num_votes"}
    [] key = "title_principals" -> {"tconst", "ordering", "nconst", "category"}

ColumnValue(key, rec, col) ==
  IF col \in ValuedColumns(key) THEN Some(rec[col]) ELSE rec[col]

\* C12: for every dataset and every column, a field whose text is the
\* sentinel \N is absent (None) in the record the loader emits and stores.
SentinelStoredAbsent ==
  (pc = "load_returned" /\ frame = "harness") =>
     LET file == local_file[file_key][1] IN
     \A i \in 2..Len(file) :
       LET fields == strip_split(file[i])
           r == parse_line(file_key, file[i]) IN
       r.kind = "record" =>
         /\ \E k \in 1..Len(table[file_key]) :
              RecordOf(file_key, table[file_key][k]) = r.rec
         /\ \A c \in 1..Len(Columns(file_key)) :
              fields[c] = NullSentinel =>
                ColumnValue(file_key, r.rec, Columns(file_key)[c]) = None

\* The profession texts of the source lines that contain "actor" or
\* "actress" in any case.
ActingProfessions == {"actor,producer", "Actress", "ACTOR,writer"}

\* The filter of a dataset on the fields of a line, as the datasets are
\* described: people by profession, ratings by a numeric rating and vote
\* count, credits by category, titles always.
PassesFilter(key, fields) ==
  CASE key = "name_basics" -> fields[5] \in ActingProfessions
    [] key = "title_basics" -> TRUE
    [] key = "title_ratings" -> fields[2] \in FloatTexts /\ fields[3] \in DigitTexts
    [] key = "title_principals" -> fields[4] \in {"actor", "actress"}

\* The data lines of a file, by position, that have the minimum column
\* count and pass the filter.
PassingLines(key, lines) ==
  {i \in 1..Len(lines) :
     /\ Len(strip_split(lines[i])) >= MinColumns(key)
     /\ PassesFilter(key, strip_split(lines[i]))}

\* C13: a data line with at least the minimum column count gives a record
\* exactly when it passes the filter of its dataset; the records of the
\* passing lines are what a load that returns has counted and stored; a
\* title's year or runtime that is not numeric is stored as absent.
FilterDecidesEmission ==
  (pc = "load_returned" /\ frame = "harness") =>
     LET lines == DataLines(local_file[file_key][1]) IN
     /\ \A i \in 1..Len(lines) :
          LET fields == strip_split(lines[i])
              r == parse_line(file_key, lines[i]) IN
          /\ Len(fields) >= MinColumns(file_key) =>
               ((r.kind = "record") <=> PassesFilter(file_key, fields))
          /\ (file_key = "title_basics" /\ r.kind = "record") =>
               /\ (fields[6] \notin DigitTexts => r.rec.start_year = None)
               /\ (fields[7] \notin DigitTexts => r.rec.end_year = None)
               /\ (fields[8] \notin DigitTexts => r.rec.runtime_minutes = None)
     /\ records_processed = Cardinality(PassingLines(file_key, lines))
     /\ Len(table[file_key]) = records_processed

\* Witness of C13: a people load returned from a file with a line of
\* profession "Actress", which it stored, and a line of profession
\* "director", which it did not.
FilterDecidesEmissionWitness ==
  /\ pc = "load_returned"
  /\ file_key = "name_basics"
  /\ LET lines == DataLines(local_file[file_key][1]) IN
     /\ \E i \in 1..Len(lines) : Len(lines[i]) >= 6 /\ lines[i][5] = "Actress"
     /\ \E i \in 1..Len(lines) : Len(lines[i]) >= 6 /\ lines[i][5] = "director"
  /\ \E k \in 1..Len(table[file_key]) :
       table[file_key][k].primary_profession = Some("Actress")
  /\ records_processed = Len(table[file_key])

\* The titles credited to one person in one category that have a Title row
\* and a Rating row.
RatedTitlesOf(nconst, category) ==
  {t \in {table["title_principals"][i].tconst :
            i \in {k \in 1..Len(table["title_principals"]) :
                     /\ table["title_principals"][k].nconst = nconst
                     /\ table["title_principals"][k].category = category}} :
     /\ \E i \in 1..Len(table["title_basics"]) : table["title_basics"][i].tconst = t
     /\ \E i \in 1..Len(table["title_ratings"]) : table["title_ratings"][i].tconst = t}

\* C14: after a successful recompute, the number_of_titles of a row of
\* actor_ratings is the number of distinct rated titles credited to the
\* person of that row in that category, also when two persons share a name.
TitlesCountedPerPerson ==
  (pc = "refresh_returned" /\ refreshed = "done") =>
     \A row \in actor_ratings :
       \A i \in 1..Len(table["name_basics"]) :
         LET p == table["name_basics"][i] IN
         (p.primary_name = Some(row.primary_name)
            /\ RatedTitlesOf(p.nconst, row.profession) # {}) =>
           row.number_of_titles = Cardinality(RatedTitlesOf(p.nconst, row.profession))

\* The average_rating of a rated title, and the runtime of a title (absent = 0).
RatingOfTitle(t) ==
  LET i == CHOOSE k \in 1..Len(table["title_ratings"]) :
             table["title_ratings"][k].tconst = t IN
  table["title_ratings"][i].average_rating

RuntimeOfTitle(t) ==
  LET i == CHOOSE k \in 1..Len(table["title_basics"]) :
             table["title_basics"][k].tconst = t
      rt == table["title_basics"][i].runtime_minutes IN
  IF rt = None THEN 0 ELSE rt[1]

RECURSIVE RatingSum(_)
RatingSum(T) ==
  IF T = {} THEN 0
  ELSE LET t == CHOOSE x \in T : TRUE IN RatingOfTitle(t) + RatingSum(T \ {t})

RECURSIVE RuntimeSum(_)
RuntimeSum(T) ==
  IF T = {} THEN 0
  ELSE LET t == CHOOSE x \in T : TRUE IN RuntimeOfTitle(t) + RuntimeSum(T \ {t})

\* The persons of the people table that share their name with no other.
SoleBearers ==
  {i \in 1..Len(table["name_basics"]) :
     \A j \in 1..Len(table["name_basics"]) :
       j # i => table["name_basics"][j].primary_name # table["name_basics"][i].primary_name}

\* C15: after a successful recompute, the row of a person and category
\* holds as score the mean of average_rating over the person's distinct
\* rated titles in the category, rounded to 2 decimals, and as
\* total_runtime_minutes the sum of the runtimes of those titles: a title
\* the person is credited on more than once counts once.  Stated for the
\* persons who share their name with no other.
ScoreOverDistinctTitles ==
  (pc = "refresh_returned" /\ refreshed = "done") =>
     \A i \in SoleBearers : \A c \in {"actor", "actress"} :
       LET p == table["name_basics"][i]
           T == RatedTitlesOf(p.nconst, c) IN
       T # {} =>
         \E row \in actor_ratings :
           /\ row.primary_name = p.primary_name[1]
           /\ row.profession = c
           /\ row.number_of_titles = Cardinality(T)
           /\ row.score = (20 * RatingSum(T) + Cardinality(T)) \div (2 * Cardinality(T))
           /\ row.total_runtime_minutes = RuntimeSum(T)

\* C16: for fixed base tables and any prior content of actor_ratings, every
\* refresh that returns leaves the same rows, one per name and profession,
\* and none of the rows of before.
RecomputeDeterministic ==
  (pc = "refresh_returned" /\ refreshed = "done" /\ frame = "harness") =>
     /\ StaleRow \notin actor_ratings
     /\ \A r1, r2 \in actor_ratings :
          (r1.primary_name = r2.primary_name /\ r1.profession = r2.profession) => r1 = r2
     /\ first_refresh # None => actor_ratings = first_refresh[1]

\* Witness of C16: the second refresh returned rows, on tables that gave rows
\* to the first while actor_ratings held a row of an earlier state.
RecomputeDeterministicWitness ==
  /\ pc = "refresh_returned"
  /\ refreshed = "done"
  /\ first_refresh # None
  /\ ratings_before = {StaleRow}
  /\ Cardinality(actor_ratings) >= 2

\* C17: the fetch and load steps of a run leave actor_ratings alone: until
\* the refresh of the run begins, and after a run that failed before its
\* refresh, actor_ratings holds the rows it held when the run was entered.
LoadsKeepAggregate ==
  (runs_begun > 0 /\ frame = "run_full_pipeline") =>
     /\ (refreshed = "no" \/ Len(loaded) < Len(file_processors)) =>
          actor_ratings = ratings_before
     /\ (pc \in {"download", "process_delete", "process_open", "process_line",
                "load_returned", "refresh"}) => refreshed = "no"

\* Witness of C17: a run has failed in a load after an earlier load had
\* stored rows, and actor_ratings holds the rows of before the run.
LoadsKeepAggregateWitness ==
  /\ pc = "returned"
  /\ error \in LoaderErrors
  /\ Len(loaded) >= 1
  /\ committed > 0
  /\ refreshed = "no"
  /\ ratings_before # {}
  /\ actor_ratings = ratings_before

\* The run records whose status is "running".
RunningRows == {i \in 1..Len(etl_runs) : etl_runs[i].status = "running"}

\* C18: as long as no start request has used force, at most one run record
\* has status "running" over any sequence of start requests and ends of
\* runs: a start request made while a record is "running" is answered 409
\* and creates no record.  Stated for behaviours without cancel request.
OneRunningUnforced ==
  (~forced /\ cancelled = {}) => Cardinality(RunningRows) <= 1

\* get_etl_run_by_id: the row whose id is run_id.
get_etl_run_by_id(run_id) == etl_runs[run_id]

\* C19: once a cancel request for a running run has been accepted, the
\* record of that run is "failed" with a message, which is what a status
\* lookup by its run id reports.
CancelMarksRunFailed ==
  \A run_id \in cancelled :
    /\ get_etl_run_by_id(run_id).status = "failed"
    /\ get_etl_run_by_id(run_id).error_message # None

\* C20: a single-dataset task fetches and loads the chosen dataset once,
\* then refreshes, and ends with exactly one finish write: "completed" when
\* fetch, load and refresh succeeded, "failed" when one of them raised.
SingleModeFinishes ==
  (frame = "run_etl_background" /\ pc = "idle" /\ runs_begun > 0) =>
     /\ fetched = <<file_key>>
     /\ error = None => (loaded = <<file_key>> /\ refreshed = "done")
     /\ Len(finish_writes) = 1
     /\ (finish_writes[1] = "completed") <=> (error = None)

\* A background task has ended after one of its steps raised.
TaskFailed ==
  /\ caller = "background"
  /\ runs_begun > 0
  /\ error # None
  /\ \/ frame = "run_full_pipeline" /\ pc \in {"returned", "idle"}
     \/ frame = "run_etl_background" /\ pc = "idle"

\* C21: after a run started through the control surface has ended in
\* failure, in full or single-dataset mode, the run history holds a "failed"
\* record with the failure's message and the latest-run lookup can answer
\* "failed": it is not bound to answer "running" or "completed".
FailedRunReported ==
  TaskFailed =>
     /\ \E i \in 1..Len(etl_runs) :
          etl_runs[i].status = "failed" /\ etl_runs[i].error_message = error
     /\ \E i \in LatestRuns : etl_runs[i].status = "failed"

\* The attempts of _init_database_connection that failed.
FailedAttempts == {i \in 1..Len(conn.outcomes) : conn.outcomes[i] # "ok"}

ConnectDone == conn.pc \in {"returned", "raised"}

\* What holds at every point of the retry loop.
RetryInv ==
  LET n == Len(conn.outcomes)
      failures == Cardinality(FailedAttempts) IN
  /\ n <= conn.max_retries
  /\ \A i \in 1..n : conn.outcomes[i] = "ok" => (i = n /\ conn.pc = "returned")
  /\ conn.pc = "sleep" => n < conn.max_retries
  /\ conn.slept = conn.retry_interval *
       (IF conn.pc \in {"sleep", "raised"} THEN failures - 1 ELSE failures)
  /\ conn.pc = "raised" <=> (conn.max_retries >= 1 /\ failures = conn.max_retries)

\* C22: _init_database_connection makes at most max_retries attempts, stops
\* at the first attempt that succeeds, waits retry_interval between a failed
\* attempt and the next one and not after the last, raises after the
\* max_retries-th failure in a row, and always terminates.
BoundedRetry == []RetryInv /\ <>ConnectDone

\* Witness of C22: every one of three or more attempts failed, the function
\* slept between them and has raised.
BoundedRetryWitness ==
  /\ conn.pc = "raised"
  /\ conn.max_retries >= 3
  /\ Len(conn.outcomes) = conn.max_retries
  /\ conn.slept = conn.retry_interval * (conn.max_retries - 1)

\* C30: for every max_retries >= 0, _init_database_connection returns only
\* from an attempt that succeeded, so on return self.Session is set and was
\* verified by the test query; when no attempt succeeded it raises.
ReturnsOnlyConnected ==
  /\ conn.pc = "returned" =>
       /\ conn.outcomes # <<>>
       /\ Last(conn.outcomes) = "ok"
       /\ conn.Session
       /\ conn.verified
  /\ (ConnectDone /\ FailedAttempts = 1..Len(conn.outcomes)) => conn.pc = "raised"

\* The rows of actor_ratings of one profession.
ProfessionRows(profession) == {r \in actor_ratings : r.profession = profession}

\* Row a ranks above row b by (score descending, number_of_titles descending).
Outranks(a, b) ==
  \/ a.score > b.score
  \/ a.score = b.score /\ a.number_of_titles > b.number_of_titles

\* The total a response reports.
TotalOf(q) == IF q.handler = "api" THEN q.body.total ELSE q.body.pagination.total

Answered == query.handler # "none" /\ query.status = 200

\* C23: with N rows of the profession in actor_ratings, a query with limit L
\* and offset O returns the rows at ranks O+1 .. min(O+L, N) of these rows
\* ordered by (score descending, number_of_titles descending), in that
\* order, reports total = N and returns no row of another profession.  Rows
\* equal in both keys share their ranks.
PageAtRanks ==
  Answered =>
     LET rows == ProfessionRows(query.profession)
         N == Cardinality(rows)
         O == query.offset
         L == query.limit
         page == query.body.actors IN
     /\ TotalOf(query) = N
     /\ Len(page) = (IF O < N THEN Min(O + L, N) - O ELSE 0)
     /\ \A i, j \in 1..Len(page) : i # j => page[i] # page[j]
     /\ \A i \in 1..Len(page) :
          \E r \in rows :
            /\ page[i] = [name |-> r.primary_name, score |-> r.score,
                          number_of_titles |-> r.number_of_titles,
                          total_runtime_minutes |-> r.total_runtime_minutes]
            /\ Cardinality({x \in rows : Outranks(x, r)}) <= O + i - 1
            /\ Cardinality({x \in rows : ~Outranks(r, x)}) >= O + i

\* Witness of C23: of four actor rows, beside rows of actresses, a query with
\* limit 2 and offset 2 returned two rows, and two rows of the table tie.
PageAtRanksWitness ==
  /\ Answered
  /\ query.profession = "actor"
  /\ Cardinality(ProfessionRows("actor")) = 4
  /\ ProfessionRows("actress") # {}
  /\ query.limit = 2
  /\ query.offset = 2
  /\ Len(query.body.actors) = 2
  /\ query.body.actors[1].score = query.body.actors[2].score

\* C24: a request to the actors query with a limit below 1 or above 1000 or a
\* negative offset is answered 422, one with a profession other than
\* "actor" and "actress" 400, both without rows; every other request is
\* answered 200 with the fields actors, total, limit, offset and profession.
InvalidInputRejected ==
  query.handler # "none" =>
     LET valid == query.limit >= 1 /\ query.limit <= 1000 /\ query.offset >= 0
         known == query.profession \in {"actor", "actress"} IN
     /\ ~valid => (query.status = 422 /\ "actors" \notin DOMAIN query.body)
     /\ (valid /\ ~known) => (query.status = 400 /\ "actors" \notin DOMAIN query.body)
     /\ (valid /\ known) =>
          /\ query.status = 200
          /\ {"actors", "total", "limit", "offset", "profession"} \subseteq DOMAIN query.body

\* The run identifiers present in a content of etl_runs.
RunIds(rows) == {rows[i].id : i \in 1..Len(rows)}

\* C26: the run history only grows: no step of a start, status, history or
\* cancel request, or of a pipeline run, removes a run record, so every run
\* identifier present before a step is present after it.
HistoryAppendOnly ==
  [][RunIds(etl_runs) \subseteq RunIds(etl_runs') /\ Len(etl_runs) <= Len(etl_runs')]_vars

\* Witness of C26: a start request, a cancel request and the end of a
\* pipeline run have each added a record, and the history was then read.
HistoryAppendOnlyWitness ==
  /\ Len(etl_runs) = 3
  /\ RunIds(etl_runs) = {1, 2, 3}
  /\ cancelled # {}
  /\ finish_writes # <<>>
  /\ starts = 1
  /\ last_response = 200
  /\ pc = "idle"

\* C27: at every point of the line loop of a load the batch holds at most
\* batch_size records and records_processed is the number of records
\* committed to the destination table; when the load returns, after the
\* final flush, no record is left uncommitted and the count returned is the
\* number of records the parser emitted.
BatchBounded ==
  /\ pc = "process_line" =>
       /\ Len(batch) <= batch_size
       /\ records_processed = Len(table[file_key])
  /\ pc = "load_returned" =>
       /\ records_processed = Len(table[file_key])
       /\ records_processed = Len(Emitted(file_key, DataLines(local_file[file_key][1])))

\* C28: when the insert of a recompute fails after its delete was
\* committed, actor_ratings is left empty, the rows of before are not
\* restored, the error leaves refresh_materialized_view, and the run ends
\* recorded as "failed" with that error.
FailedRecomputeLeavesEmpty ==
  (frame = "run_full_pipeline" /\ error = Some("RefreshInsertError")) =>
     /\ actor_ratings = {}
     /\ refreshed = "failed"
     /\ pc \in {"raised", "returned", "idle"}
     /\ RunEnded =>
          /\ Last(etl_runs).status = "failed"
          /\ Last(etl_runs).error_message = error
          /\ result # None
          /\ result[1].success = FALSE

\* Witness of C28: a run whose four loads returned has ended after its
\* insert failed; actor_ratings held rows when the run was entered.
FailedRecomputeLeavesEmptyWitness ==
  /\ pc = "returned"
  /\ error = Some("RefreshInsertError")
  /\ loaded = file_processors
  /\ ratings_before # {}
  /\ actor_ratings = {}
  /\ Last(etl_runs).status = "failed"

\* The background task of a started run has ended, in either mode.
TaskEnded ==
  /\ caller = "background"
  /\ runs_begun > 0
  /\ \/ frame = "run_full_pipeline" /\ pc \in {"returned", "idle"}
     \/ frame = "run_etl_background" /\ pc = "idle"

\* C29: once the background task of the one run started so far has ended,
\* with success or failure, in full or single-dataset mode, the guard of
\* start_etl lets a start request without force pass: the latest run it
\* reads is not bound to be "running".  Stated without cancel requests.
GuardReleased ==
  (TaskEnded /\ starts = 1 /\ cancelled = {}) =>
     \E i \in LatestRuns : etl_runs[i].status # "running"


\* C25: whenever the aggregation is recomputed, by an execution's own
\* refresh step or by a request to POST /etl/refresh-view during one, no
\* base table stands between its truncation and the commit of its last
\* batch, and the tables freshly loaded by the execution in progress are
\* none of them or all four of them.
RecomputeReadsWholeRun ==
  /\ pc = "refresh" => {loaded[i] : i \in 1..Len(loaded)} = FileKeys
  /\ \A i \in 1..Len(view_reads) :
       /\ view_reads[i].loading = {}
       /\ view_reads[i].fresh \in {{}, FileKeys}
=============================================================================
